---- MODULE Spec2Model ----
(***************************************************************************)
(* Model of the dart-api-dl binding layer: the one-time initialization     *)
(* gate (lifecycle.rs / livecycle.rs) and the ownership discipline of      *)
(* OwnedCObject values that are posted through a SendPort and dropped      *)
(* (cobject.rs, cobject/owned.rs, cobject/reference.rs, port.rs, ports.rs),*)
(* the native receive ports, their dispatch wrapper and its failure        *)
(* boundary (ports.rs, port.rs, panic.rs), the function pointer slots      *)
(* (lifecycle.rs, slot.rs, handle.rs), the value classification           *)
(* (cobject/type_enums.rs, cobject.rs, cobject/reference.rs), the          *)
(* constructors and typed data (cobject/owned.rs, cobject/rust_values.rs)  *)
(* and the command handler of integration-tests-bindings.                  *)
(***************************************************************************)
EXTENDS Integers, Sequences, FiniteSets, TLC

(***************************************************************************)
(* Bounds of the model.                                                    *)
(***************************************************************************)
NumThreads == 3
MaxCalls == 4
NumData == 2
MaxNodes == 4
MaxPosts == 2
MaxOps == 2
MaxHandles == 2
MaxMsgLen == 1
MaxPortId == 2
ExtraTags == 2
MaxLen == 2
MaxMsgs == 3

Threads == 1..NumThreads
InitData == 1..NumData

VARIABLES
    INIT_ONCE,   \* the OnceCell: "Uninitialized", "Initializing", "Ready", "Failed"
    pc,          \* per thread: position inside initialize_dart_api_dl
    arg,         \* per thread: the InitData passed to initialize_dart_api_dl
    status,      \* per thread: status code returned by Dart_InitializeApiDL
    calls,       \* number of API calls started so far, by all threads
    ffiLog,      \* sequence of [data, status]: executions of Dart_InitializeApiDL
    initRets,    \* set of results returned by initialize_dart_api_dl
    instObs,     \* set of [res, gate, log]: returns of DartRuntime::instance()
    obj,         \* the Dart_CObject tree held by the local OwnedCObject
    built,       \* the tree as its constructor returned it
    owner,       \* "caller" while the value is owned, "none" once it was dropped
    aborted,     \* the process called abort()
    slot,        \* the function pointer slot Dart_PostCObject_DL: "Some" or "None"
    moved,       \* per node: times the runtime took over the buffer
    finalized,   \* per node: times Drop invoked the finalizer callback
    strFreed,    \* per node: times Drop freed the string buffer
    arrFreed,    \* per node: times Drop freed the array's backing allocation
    posts,       \* number of post attempts so far
    okPosts,     \* number of post attempts that returned Ok
    last,        \* the last operation: [op, enq, ret, before]
    slots,       \* the function pointer slots: name -> "Some" or "None"
    rtOpen,      \* the native ports that are open in the runtime
    nextPort,    \* the id the runtime gives to the next native port
    handles,     \* the NativeRecvPort handles: sequence of [port, st]
    ffi,         \* the foreign calls made through the slots: [fn, port]
    crashed,     \* the process aborted or a panic unwound into foreign code
    nops,        \* number of port operations so far
    lastOp,      \* the last port operation and what it returned
    vout,        \* the last value operation: [op, enum, arg, out]
    chan,        \* the channel to the adder thread: queue of [a, b, port]
    adder,       \* the adder thread: "unspawned", "running", "leaving", "exited"
    replies,     \* what was posted to reply ports: sequence of [port, kind, v]
    inbox        \* the messages CmdHandler::handle_message was called with

gateVars == <<INIT_ONCE, pc, arg, status, calls, ffiLog, initRets, instObs>>

objVars == <<obj, built, owner, aborted, slot, moved, finalized, strFreed,
             arrFreed, posts, okPosts, last>>

portVars == <<slots, rtOpen, nextPort, handles, ffi, crashed, nops, lastOp>>

valVars == <<vout>>

adderVars == <<chan, adder, replies, inbox>>

vars == <<gateVars, objVars, portVars, valVars, adderVars>>

(***************************************************************************)
(* lifecycle.rs                                                            *)
(***************************************************************************)

\* The status codes Dart_InitializeApiDL can return: 0 on success, -1 on a
\* major version mismatch.
StatusCodes == {0, 0 - 1}

\* The closure handed to get_or_init: maps the status code to the stored
\* result.
InitClosure_AlwaysReady(st) == "Ready"

InitClosure(st) == IF st = 0 THEN "Ready" ELSE "Failed"

\* The value of a completed cell, cloned for the caller.
StoredResult(cell) == IF cell = "Ready" THEN "Ok" ELSE "InitFailed"

\* OnceCell::get(): Some only when the cell is complete.
OnceCellGet(cell) == IF cell \in {"Ready", "Failed"} THEN "Some" ELSE "None"

\* DartRuntime::instance()
instance_FailedWhenUnset(cell) ==
    IF OnceCellGet(cell) = "Some" THEN StoredResult(cell) ELSE "InitFailed"

instance(cell) ==
    IF OnceCellGet(cell) = "Some" THEN StoredResult(cell) ELSE "InitNotYetCalled"

\* A thread calls initialize_dart_api_dl(data).
initialize_dart_api_dl(t, data) ==
    /\ pc[t] = "idle"
    /\ calls < MaxCalls
    /\ pc' = [pc EXCEPT ![t] = "get_or_init"]
    /\ arg' = [arg EXCEPT ![t] = data]
    /\ calls' = calls + 1
    /\ UNCHANGED <<INIT_ONCE, status, ffiLog, initRets, instObs>>

\* OnceCell::get_or_init: a complete cell is returned as it is, an
\* incomplete one is claimed by exactly one thread, every other thread waits.
get_or_init_AlwaysClaim(t) ==
    /\ pc[t] = "get_or_init"
    /\ IF OnceCellGet(INIT_ONCE) = "Some"
         THEN /\ pc' = [pc EXCEPT ![t] = "clone"]
              /\ UNCHANGED INIT_ONCE
         ELSE /\ INIT_ONCE' = "Initializing"
              /\ pc' = [pc EXCEPT ![t] = "closure"]
    /\ UNCHANGED <<arg, status, calls, ffiLog, initRets, instObs>>

get_or_init_RetryFailed(t) ==
    /\ pc[t] = "get_or_init"
    /\ IF INIT_ONCE = "Ready"
         THEN /\ pc' = [pc EXCEPT ![t] = "clone"]
              /\ UNCHANGED INIT_ONCE
         ELSE IF INIT_ONCE \in {"Uninitialized", "Failed"}
         THEN /\ INIT_ONCE' = "Initializing"
              /\ pc' = [pc EXCEPT ![t] = "closure"]
         ELSE /\ pc' = [pc EXCEPT ![t] = "wait"]
              /\ UNCHANGED INIT_ONCE
    /\ UNCHANGED <<arg, status, calls, ffiLog, initRets, instObs>>

get_or_init(t) ==
    /\ pc[t] = "get_or_init"
    /\ IF OnceCellGet(INIT_ONCE) = "Some"
         THEN /\ pc' = [pc EXCEPT ![t] = "clone"]
              /\ UNCHANGED INIT_ONCE
         ELSE IF INIT_ONCE = "Uninitialized"
         THEN /\ INIT_ONCE' = "Initializing"
              /\ pc' = [pc EXCEPT ![t] = "closure"]
         ELSE /\ pc' = [pc EXCEPT ![t] = "wait"]
              /\ UNCHANGED INIT_ONCE
    /\ UNCHANGED <<arg, status, calls, ffiLog, initRets, instObs>>

\* The claiming thread executes the foreign call Dart_InitializeApiDL(data).
Dart_InitializeApiDL(t) ==
    /\ pc[t] = "closure"
    /\ \E st \in StatusCodes :
         /\ status' = [status EXCEPT ![t] = st]
         /\ ffiLog' = Append(ffiLog, [data |-> arg[t], status |-> st])
    /\ pc' = [pc EXCEPT ![t] = "store"]
    /\ UNCHANGED <<INIT_ONCE, arg, calls, initRets, instObs>>

\* The result of the closure is stored and the cell becomes complete.
store_result(t) ==
    /\ pc[t] = "store"
    /\ INIT_ONCE' = InitClosure(status[t])
    /\ pc' = [pc EXCEPT ![t] = "clone"]
    /\ UNCHANGED <<arg, status, calls, ffiLog, initRets, instObs>>

\* A waiting thread is woken once the cell is complete.
wait_for_init(t) ==
    /\ pc[t] = "wait"
    /\ OnceCellGet(INIT_ONCE) = "Some"
    /\ pc' = [pc EXCEPT ![t] = "clone"]
    /\ UNCHANGED <<INIT_ONCE, arg, status, calls, ffiLog, initRets, instObs>>

\* .clone(): initialize_dart_api_dl returns the stored result.
clone_result(t) ==
    /\ pc[t] = "clone"
    /\ initRets' = initRets \cup {StoredResult(INIT_ONCE)}
    /\ pc' = [pc EXCEPT ![t] = "idle"]
    /\ UNCHANGED <<INIT_ONCE, arg, status, calls, ffiLog, instObs>>

\* A thread calls DartRuntime::instance().
instance_call(t) ==
    /\ pc[t] = "idle"
    /\ calls < MaxCalls
    /\ calls' = calls + 1
    /\ instObs' = instObs \cup
           {[res |-> instance(INIT_ONCE), gate |-> INIT_ONCE, log |-> ffiLog]}
    /\ UNCHANGED <<INIT_ONCE, pc, arg, status, ffiLog, initRets>>

(***************************************************************************)
(* cobject.rs, cobject/owned.rs: the Dart_CObject tree and its             *)
(* constructors.  A node is [type_, value, null_ptr, values]: the          *)
(* discriminant, the scalar payload, whether the array pointer is null,    *)
(* and the array elements.  The buffers a node owns (string bytes, the     *)
(* array's backing allocation, the external typed data behind peer) are    *)
(* identified by the node's path from the root.                            *)
(***************************************************************************)

\* CObjectType: the discriminants try_from accepts.
CObjectType ==
    {"kNull", "kBool", "kInt32", "kInt64", "kDouble", "kString", "kArray",
     "kTypedData", "kExternalTypedData", "kSendPort", "kCapability"}

\* CObject::type(): Ok(kind) for a known discriminant, Err otherwise.
type(o) == IF o.type_ \in CObjectType THEN o.type_ ELSE "UnknownCObjectType"

wrap_raw(t, v, vs) == [type_ |-> t, value |-> v, null_ptr |-> FALSE, values |-> vs]

null == wrap_raw("kNull", 0, <<>>)
bool(val) == wrap_raw("kBool", val, <<>>)
int32(val) == wrap_raw("kInt32", val, <<>>)
int64(val) == wrap_raw("kInt64", val, <<>>)
double(val) == wrap_raw("kDouble", val, <<>>)
string(val) == wrap_raw("kString", val, <<>>)
send_port(port) == wrap_raw("kSendPort", port, <<>>)
capability(id) == wrap_raw("kCapability", id, <<>>)
array(arr) == wrap_raw("kArray", 0, arr)
external_typed_data(data) == wrap_raw("kExternalTypedData", data, <<>>)

\* The values without elements the constructors return (one payload each).
Leaves ==
    {null, bool(1), int32(32), int64(64), double(2), string(7), send_port(5),
     capability(9), external_typed_data(3)}

RECURSIVE Size(_), SizeOfAll(_)
Size(o) == 1 + SizeOfAll(o.values)
SizeOfAll(vs) == IF vs = <<>> THEN 0 ELSE Size(Head(vs)) + SizeOfAll(Tail(vs))

\* Every value the constructors can build out of at most n nodes.
RECURSIVE Trees(_), Forests(_)
Trees(n) ==
    IF n = 0 THEN {} ELSE Leaves \cup {array(f) : f \in Forests(n - 1)}
Forests(n) ==
    {<<>>} \cup UNION {{<<t>> \o f : f \in Forests(n - Size(t))} : t \in Trees(n)}

\* The paths of the nodes of a tree, and the node at a path.
RECURSIVE PathsOf(_)
PathsOf(o) ==
    {<<>>} \cup UNION {{<<i>> \o p : p \in PathsOf(o.values[i])} : i \in 1..Len(o.values)}

RECURSIVE NodeAt(_, _)
NodeAt(o, p) == IF p = <<>> THEN o ELSE NodeAt(o.values[Head(p)], Tail(p))

\* The nodes whose discriminant is kExternalTypedData: the buffers
\* Dart_PostCObject_DL hands to the receiver when it enqueues the message.
ExternalPaths(o) == {p \in PathsOf(o) : NodeAt(o, p).type_ = "kExternalTypedData"}

(***************************************************************************)
(* cobject.rs / cobject/reference.rs: the sanctioned mutation.             *)
(***************************************************************************)

set_to_null_Noop(o) == o

\* CObject::set_to_null / CObjectMut::set_to_null: only the discriminant.
set_to_null(o) == [o EXCEPT !.type_ = "kNull"]

\* utils.rs prepare_dart_array_parts_mut: abort() when exactly one of
\* "length is 0" and "pointer is null" holds.
prepare_dart_array_parts_mut(ptr_is_null, len) ==
    IF (len = 0) # ptr_is_null THEN "abort" ELSE "ok"

\* CObjectMut::null_external_typed_objects: [obj, abort], the tree as the
\* traversal left it and whether it ended in abort().
RECURSIVE null_external_typed_objects(_), NullElements(_, _)
null_external_typed_objects(o) ==
    IF type(o) = "kExternalTypedData"
      THEN [obj |-> set_to_null(o), abort |-> FALSE]
    ELSE IF type(o) = "kArray"
      THEN IF prepare_dart_array_parts_mut(o.null_ptr, Len(o.values)) = "abort"
             THEN [obj |-> o, abort |-> TRUE]
             ELSE LET r == NullElements(o.values, 1)
                  IN  [obj |-> [o EXCEPT !.values = r.values], abort |-> r.abort]
    ELSE [obj |-> o, abort |-> FALSE]
NullElements(vs, i) ==
    IF i > Len(vs)
      THEN [values |-> vs, abort |-> FALSE]
      ELSE LET r == null_external_typed_objects(vs[i])
               next == [vs EXCEPT ![i] = r.obj]
           IN  IF r.abort THEN [values |-> next, abort |-> TRUE]
                          ELSE NullElements(next, i + 1)

(***************************************************************************)
(* port.rs / ports.rs: posting.                                            *)
(***************************************************************************)

\* Whether the runtime enqueued the message: the slot is populated and
\* Dart_PostCObject_DL returned true.
Enqueued(sl, accepted) == sl = "Some" /\ accepted

PostResult_IgnoresDart(sl, accepted) == IF sl = "Some" THEN "Ok" ELSE "Err"

\* What the post functions return: fpslot!(@call ..)? turns an unpopulated
\* slot into Err, a false result of the foreign call is Err as well.
PostResult(sl, accepted) ==
    IF sl = "None" THEN "Err" ELSE IF accepted THEN "Ok" ELSE "Err"

post_cobject_mut_body_NullsAlways(o, ret) ==
    IF type(o) = "kExternalTypedData" THEN set_to_null(o) ELSE o

\* port.rs SendPort::post_cobject_mut: the value after the call.
post_cobject_mut_body(o, ret) ==
    LET need_nulling == type(o) = "kExternalTypedData"
    IN  IF ret = "Ok" /\ need_nulling THEN set_to_null(o) ELSE o

\* ports.rs SendPort::post_cobject_ref: [obj, abort] after the call.
post_cobject_ref_body(o, ret) ==
    IF ret = "Ok" THEN null_external_typed_objects(o)
                  ELSE [obj |-> o, abort |-> FALSE]

\* The runtime takes over every external typed data buffer of an enqueued
\* message.
Transfer(o, enq) ==
    [p \in DOMAIN moved |->
        IF enq /\ p \in ExternalPaths(o) THEN moved[p] + 1 ELSE moved[p]]

(***************************************************************************)
(* impl Drop for OwnedCObject (cobject.rs, cobject/owned.rs).              *)
(***************************************************************************)

NoResourceTypes ==
    {"kNull", "kBool", "kInt32", "kInt64", "kDouble", "kCapability", "kSendPort"}

drop_effect_TypedDataAsExternal(o) ==
    IF o.type_ \in NoResourceTypes THEN "nothing"
    ELSE IF o.type_ = "kString" THEN "free_string"
    ELSE IF o.type_ = "kArray" THEN "free_array"
    ELSE IF o.type_ \in {"kExternalTypedData", "kTypedData"} THEN "finalize"
    ELSE "panic"

\* What drop does with the value: "nothing", "free_string", "free_array"
\* (Vec::from_raw_parts over the pointer array: the backing allocation is
\* freed, the pointers in it are plain raw pointers), "finalize" or "panic".
drop_effect(o) ==
    IF o.type_ \in NoResourceTypes THEN "nothing"
    ELSE IF o.type_ = "kString" THEN "free_string"
    ELSE IF o.type_ = "kArray" THEN "free_array"
    ELSE IF o.type_ = "kExternalTypedData" THEN "finalize"
    ELSE "panic"

\* The value drop leaves behind: String and ExternalTypedData are set to
\* kNull before their buffer is released.
drop_object(o) ==
    IF drop_effect(o) \in {"free_string", "finalize"} THEN set_to_null(o) ELSE o

Bump(f, p, cond) == IF cond THEN [f EXCEPT ![p] = @ + 1] ELSE f

\* The destructor runs on value o: the counters of the root node change.
DropOf(o) ==
    /\ owner' = "none"
    /\ obj' = drop_object(o)
    /\ finalized' = Bump(finalized, <<>>, drop_effect(o) = "finalize")
    /\ strFreed' = Bump(strFreed, <<>>, drop_effect(o) = "free_string")
    /\ arrFreed' = Bump(arrFreed, <<>>, drop_effect(o) = "free_array")

CanPost == owner = "caller" /\ ~aborted /\ posts < MaxPosts

\* port.rs: port.post_cobject_mut(&mut cobject)
post_cobject_mut(accepted) ==
    LET ret == PostResult(slot, accepted) IN
    /\ CanPost
    /\ obj' = post_cobject_mut_body(obj, ret)
    /\ moved' = Transfer(obj, Enqueued(slot, accepted))
    /\ posts' = posts + 1
    /\ okPosts' = IF ret = "Ok" THEN okPosts + 1 ELSE okPosts
    /\ last' = [op |-> "post_cobject_mut", enq |-> Enqueued(slot, accepted),
                ret |-> ret, before |-> obj]
    /\ UNCHANGED <<built, owner, aborted, slot, finalized, strFreed, arrFreed>>

\* ports.rs: port.post_cobject_ref(cobject.as_mut())
post_cobject_ref(accepted) ==
    LET ret == PostResult(slot, accepted)
        r == post_cobject_ref_body(obj, ret) IN
    /\ CanPost
    /\ obj' = r.obj
    /\ aborted' = r.abort
    /\ moved' = Transfer(obj, Enqueued(slot, accepted))
    /\ posts' = posts + 1
    /\ okPosts' = IF ret = "Ok" THEN okPosts + 1 ELSE okPosts
    /\ last' = [op |-> "post_cobject_ref", enq |-> Enqueued(slot, accepted),
                ret |-> ret, before |-> obj]
    /\ UNCHANGED <<built, owner, slot, finalized, strFreed, arrFreed>>

port_post_cobject_KeepsValue(accepted) ==
    LET ret == PostResult(slot, accepted) IN
    /\ CanPost
    /\ obj' = post_cobject_mut_body(obj, ret)
    /\ moved' = Transfer(obj, Enqueued(slot, accepted))
    /\ posts' = posts + 1
    /\ okPosts' = IF ret = "Ok" THEN okPosts + 1 ELSE okPosts
    /\ last' = [op |-> "post_cobject", enq |-> Enqueued(slot, accepted),
                ret |-> ret, before |-> obj]
    /\ UNCHANGED <<built, owner, aborted, slot, finalized, strFreed, arrFreed>>

\* port.rs SendPort::post_cobject: the value is moved in, posted with
\* post_cobject_mut and dropped when the function returns.
port_post_cobject(accepted) ==
    LET ret == PostResult(slot, accepted) IN
    /\ CanPost
    /\ DropOf(post_cobject_mut_body(obj, ret))
    /\ moved' = Transfer(obj, Enqueued(slot, accepted))
    /\ posts' = posts + 1
    /\ okPosts' = IF ret = "Ok" THEN okPosts + 1 ELSE okPosts
    /\ last' = [op |-> "post_cobject", enq |-> Enqueued(slot, accepted),
                ret |-> ret, before |-> obj]
    /\ UNCHANGED <<built, aborted, slot>>

\* ports.rs SendPort::post_cobject: the same around post_cobject_ref; after
\* abort() nothing is dropped.
ports_post_cobject(accepted) ==
    LET ret == PostResult(slot, accepted)
        r == post_cobject_ref_body(obj, ret) IN
    /\ CanPost
    /\ aborted' = r.abort
    /\ IF r.abort
         THEN /\ obj' = r.obj
              /\ UNCHANGED <<owner, finalized, strFreed, arrFreed>>
         ELSE DropOf(r.obj)
    /\ moved' = Transfer(obj, Enqueued(slot, accepted))
    /\ posts' = posts + 1
    /\ okPosts' = IF ret = "Ok" THEN okPosts + 1 ELSE okPosts
    /\ last' = [op |-> "post_cobject", enq |-> Enqueued(slot, accepted),
                ret |-> ret, before |-> obj]
    /\ UNCHANGED <<built, slot>>

\* The owner lets the value go out of scope.
drop ==
    /\ owner = "caller"
    /\ ~aborted
    /\ DropOf(obj)
    /\ last' = [op |-> "drop", enq |-> FALSE, ret |-> drop_effect(obj), before |-> obj]
    /\ UNCHANGED <<built, aborted, slot, moved, posts, okPosts>>

(***************************************************************************)
(* lifecycle.rs / slot.rs: calling through a function pointer slot.        *)
(***************************************************************************)

\* The slots the port and handle operations call through.
SlotNames ==
    {"Dart_PostInteger_DL", "Dart_NewNativePort_DL", "Dart_CloseNativePort_DL",
     "Dart_IsError_DL"}

\* lifecycle.rs fpslot!(@call ..): Ok(result of the call) for a populated
\* slot, Err(UninitializedFunctionSlot) for an unpopulated one.
fpslot(sl) == IF sl = "Some" THEN "Ok" ELSE "UninitializedFunctionSlot"

\* slot.rs __fpslot!, the macro handle.rs imports: the plain result of the
\* call for a populated slot, panic!(..) for an unpopulated one.
slot_fpslot(sl) == IF sl = "Some" THEN "called" ELSE "panic"

(***************************************************************************)
(* ports.rs / port.rs: wrapping raw port ids.  An Option is the set of its *)
(* values: None is {}, Some(x) is {x}.                                     *)
(***************************************************************************)

ILLEGAL_PORT == 0

\* The raw port ids of the model: ILLEGAL_PORT and the ids above it.
RawPortIds == ILLEGAL_PORT..MaxPortId

send_port_from_raw_with_origin_NeverNone(port, origin) ==
    {[port |-> port, origin |-> origin]}

send_port_from_raw_with_origin(port, origin) ==
    IF port # ILLEGAL_PORT THEN {[port |-> port, origin |-> origin]} ELSE {}

send_port_from_raw(port) == send_port_from_raw_with_origin(port, ILLEGAL_PORT)

native_recv_port_from_raw(port) ==
    IF port # ILLEGAL_PORT THEN {[port |-> port, origin |-> ILLEGAL_PORT]} ELSE {}

\* SendPort::as_raw
as_raw(sp) == <<sp.port, sp.origin>>

(***************************************************************************)
(* panic.rs: the failure boundary around a message handler.  A string is   *)
(* the sequence of its bytes.                                              *)
(***************************************************************************)

Bytes == {0, 97}

\* The panic messages of the model, with and without nul bytes.
Messages == UNION {[1..n -> Bytes] : n \in 0..MaxMsgLen}

\* "panic of unsupported type"
FallbackMsg == <<112, 97, 110, 105, 99, 32, 111, 102, 32, 117, 110, 115, 117, 112, 112, 111, 114, 116, 101, 100, 32, 116, 121, 112, 101>>

\* bytes[..end_idx], end_idx the position of the first 0 byte.
RECURSIVE UntilNul(_)
UntilNul(bytes) ==
    IF bytes = <<>> \/ Head(bytes) = 0 THEN <<>>
    ELSE <<Head(bytes)>> \o UntilNul(Tail(bytes))

\* OwnedCObject::string_lossy / CObject::string_lossy
string_lossy(val) == wrap_raw("kString", UntilNul(val), <<>>)

\* A panic payload (Box<dyn Any + Send>): its type, the message of a String
\* or &'static str, and whether the destructor of the payload value panics.
NoPayload == [type |-> "none", msg |-> <<>>, drop_panics |-> FALSE]

Payloads ==
    [type : {"String", "&'static str"}, msg : Messages, drop_panics : {FALSE}]
      \cup [type : {"other"}, msg : {<<>>}, drop_panics : BOOLEAN]

\* What the handler does when it is called: return, or panic with a payload.
FuncBehaviours ==
    {[panics |-> FALSE, payload |-> NoPayload]}
      \cup {[panics |-> TRUE, payload |-> pl] : pl \in Payloads}

\* What the panic handler does when it is called.
OnPanicBehaviours ==
    {[panics |-> FALSE, payload |-> NoPayload]}
      \cup {[panics |-> TRUE, payload |-> pl] :
               pl \in {p \in Payloads : p.type = "other"}}

panic_as_cobject_SkipsDowncast(err) == string_lossy(FallbackMsg)

\* The downcast chain: the payload as a string CObject.
panic_as_cobject(err) ==
    IF err.type = "String" THEN string_lossy(err.msg)
    ELSE IF err.type = "&'static str" THEN string_lossy(err.msg)
    ELSE string_lossy(FallbackMsg)

\* catch_unwind_panic_as_cobject(obj, func, on_panic): how often each
\* closure ran, the object handed to on_panic, and how the call ended.  The
\* payload of the caught panic of func lives until the function returns, the
\* payload of a caught panic of on_panic until is_err() was evaluated; both
\* are dropped outside of catch_unwind, and a panic while a panic unwinds
\* aborts.
catch_unwind_panic_as_cobject(func, on_panic) ==
    IF ~func.panics
      THEN [func_calls |-> 1, on_panic_calls |-> 0, panic_obj |-> null,
            outcome |-> "returned"]
      ELSE LET err == func.payload
               second == on_panic.panics /\ on_panic.payload.drop_panics
           IN  [func_calls |-> 1, on_panic_calls |-> 1,
                panic_obj |-> panic_as_cobject(err),
                outcome |-> IF second /\ err.drop_panics THEN "abort"
                            ELSE IF second \/ err.drop_panics THEN "unwound"
                            ELSE "returned"]

(***************************************************************************)
(* ports.rs / port.rs / handle.rs: the operations on ports and handles.    *)
(***************************************************************************)

\* The record of an operation: what was called with what, what it returned,
\* and the foreign calls and open ports before it.
NoOp ==
    [op |-> "none", ret |-> "none", slot |-> "Some", port |-> ILLEGAL_PORT,
     rt |-> "Ok", func |-> [panics |-> FALSE, payload |-> NoPayload],
     on_panic |-> [panics |-> FALSE, payload |-> NoPayload],
     func_calls |-> 0, on_panic_calls |-> 0, panic_obj |-> null,
     ffi_before |-> <<>>, open_before |-> {}, handles_before |-> <<>>,
     nul_in_name |-> FALSE]

OpRecord(op, ret, sl, port) ==
    [NoOp EXCEPT !.op = op, !.ret = ret, !.slot = sl, !.port = port,
                 !.ffi_before = ffi, !.open_before = rtOpen,
                 !.handles_before = handles]

CanOp == ~crashed /\ nops < MaxOps

\* A DartRuntime value is at hand: DartRuntime::instance() returns Ok.
HasRuntime == instance(INIT_ONCE) = "Ok"

\* The foreign call `fn` is made through its slot.
ForeignCall(called, fn, port) ==
    IF called THEN Append(ffi, [fn |-> fn, port |-> port]) ELSE ffi

native_recv_port_NameCheckedLast(nul_in_name, granted) ==
    LET sl == slots["Dart_NewNativePort_DL"]
        called == fpslot(sl) = "Ok"
        port == IF granted THEN nextPort ELSE ILLEGAL_PORT
        ret == IF nul_in_name THEN "NulInName"
               ELSE IF fpslot(sl) # "Ok" THEN "Unreachable"
               ELSE IF native_recv_port_from_raw(port) = {} THEN "DartFailed"
               ELSE "Ok"
    IN  /\ CanOp
        /\ HasRuntime
        /\ Len(handles) < MaxHandles
        /\ granted => nextPort <= MaxPortId
        /\ ffi' = ForeignCall(called, "Dart_NewNativePort_DL", port)
        /\ rtOpen' = IF called /\ granted THEN rtOpen \cup {port} ELSE rtOpen
        /\ nextPort' = IF called /\ granted THEN nextPort + 1 ELSE nextPort
        /\ handles' = IF ret = "Ok"
                        THEN Append(handles, [port |-> port, st |-> "Live"])
                        ELSE handles
        /\ nops' = nops + 1
        /\ lastOp' = [OpRecord("native_recv_port", ret, sl, port)
                         EXCEPT !.nul_in_name = nul_in_name]
        /\ UNCHANGED <<slots, crashed>>

\* DartRuntime::native_recv_port: the name is converted, the port is created
\* through Dart_NewNativePort_DL and wrapped.  `granted` is whether the
\* runtime creates a port or answers ILLEGAL_PORT.
native_recv_port(nul_in_name, granted) ==
    LET sl == slots["Dart_NewNativePort_DL"]
        called == ~nul_in_name /\ fpslot(sl) = "Ok"
        port == IF granted THEN nextPort ELSE ILLEGAL_PORT
        ret == IF nul_in_name THEN "NulInName"
               ELSE IF fpslot(sl) # "Ok" THEN "Unreachable"
               ELSE IF native_recv_port_from_raw(port) = {} THEN "DartFailed"
               ELSE "Ok"
    IN  /\ CanOp
        /\ HasRuntime
        /\ Len(handles) < MaxHandles
        /\ granted => nextPort <= MaxPortId
        /\ ffi' = ForeignCall(called, "Dart_NewNativePort_DL", port)
        /\ rtOpen' = IF called /\ granted THEN rtOpen \cup {port} ELSE rtOpen
        /\ nextPort' = IF called /\ granted THEN nextPort + 1 ELSE nextPort
        /\ handles' = IF ret = "Ok"
                        THEN Append(handles, [port |-> port, st |-> "Live"])
                        ELSE handles
        /\ nops' = nops + 1
        /\ lastOp' = [OpRecord("native_recv_port", ret, sl, port)
                         EXCEPT !.nul_in_name = nul_in_name]
        /\ UNCHANGED <<slots, crashed>>

\* DartRuntime::native_recv_port_from_raw(port): a further handle.
NativeRecvPort_from_raw(port) ==
    LET r == native_recv_port_from_raw(port)
    IN  /\ CanOp
        /\ HasRuntime
        /\ Len(handles) < MaxHandles
        /\ handles' = IF r # {} THEN Append(handles, [port |-> port, st |-> "Live"])
                                ELSE handles
        /\ nops' = nops + 1
        /\ lastOp' = OpRecord("native_recv_port_from_raw",
                              IF r # {} THEN "Some" ELSE "None", "Some", port)
        /\ UNCHANGED <<slots, rtOpen, nextPort, ffi, crashed>>

\* What Drop for NativeRecvPort does to the foreign call log and the
\* runtime's ports: let _ = fpslot!(@call Dart_CloseNativePort_DL(port)).
CloseCalls(log, port) ==
    IF fpslot(slots["Dart_CloseNativePort_DL"]) = "Ok"
      THEN Append(log, [fn |-> "Dart_CloseNativePort_DL", port |-> port])
      ELSE log

OpenAfterClose(open, port) ==
    IF fpslot(slots["Dart_CloseNativePort_DL"]) = "Ok" THEN open \ {port} ELSE open

\* impl Drop for NativeRecvPort: handle i goes out of scope.  A handle is
\* dropped or leaked once, which bounds these two operations.
NativeRecvPort_drop(i) ==
    /\ ~crashed
    /\ handles[i].st = "Live"
    /\ ffi' = CloseCalls(ffi, handles[i].port)
    /\ rtOpen' = OpenAfterClose(rtOpen, handles[i].port)
    /\ handles' = [handles EXCEPT ![i].st = "Dropped"]
    /\ lastOp' = OpRecord("drop", "nothing", slots["Dart_CloseNativePort_DL"],
                          handles[i].port)
    /\ UNCHANGED <<slots, nextPort, crashed, nops>>

NativeRecvPort_leak_Drops(i) ==
    /\ ~crashed
    /\ handles[i].st = "Live"
    /\ ffi' = CloseCalls(ffi, handles[i].port)
    /\ rtOpen' = OpenAfterClose(rtOpen, handles[i].port)
    /\ handles' = [handles EXCEPT ![i].st = "Leaked"]
    /\ lastOp' = OpRecord("leak", "SendPort", "Some", handles[i].port)
    /\ UNCHANGED <<slots, nextPort, crashed, nops>>

\* NativeRecvPort::leak: forget(self), the destructor never runs.
NativeRecvPort_leak(i) ==
    /\ ~crashed
    /\ handles[i].st = "Live"
    /\ handles' = [handles EXCEPT ![i].st = "Leaked"]
    /\ lastOp' = OpRecord("leak", "SendPort", "Some", handles[i].port)
    /\ UNCHANGED <<slots, rtOpen, nextPort, ffi, crashed, nops>>

\* Whether the dispatch wrapper gets as far as the handler.
Dispatches_Always(rt, ourself) == TRUE

Dispatches(rt, ourself) == rt = "Ok" /\ native_recv_port_from_raw(ourself) # {}

\* unsafe extern "C" fn handle_message(ourself, data_ref): the callback the
\* runtime invokes for a message.  The handle made of `ourself` is leaked
\* when the failure boundary returns; when a panic unwinds out of the
\* boundary it leaves an extern "C" function: with `cleanup` the frame is
\* unwound, the handle is dropped on the way and the panic reaches the
\* foreign caller, without it the process is aborted at once.  A behaviour
\* has one callback, which uses up the budget of operations (handles can
\* still be dropped or leaked after it).
handle_message(ourself, func, on_panic, cleanup) ==
    LET rt == instance(INIT_ONCE)
        r == catch_unwind_panic_as_cobject(func, on_panic)
        rec == [OpRecord("handle_message", "returned", "Some", ourself)
                   EXCEPT !.rt = rt, !.func = func, !.on_panic = on_panic]
    IN  /\ CanOp
        /\ nops' = MaxOps
        /\ IF Dispatches(rt, ourself)
             THEN /\ lastOp' = [rec EXCEPT !.ret = IF r.outcome = "unwound" /\ ~cleanup
                                                   THEN "abort" ELSE r.outcome,
                                          !.func_calls = r.func_calls,
                                          !.on_panic_calls = r.on_panic_calls,
                                          !.panic_obj = r.panic_obj]
                  /\ crashed' = (r.outcome # "returned")
                  /\ IF r.outcome = "unwound" /\ cleanup
                       THEN /\ ffi' = CloseCalls(ffi, ourself)
                            /\ rtOpen' = OpenAfterClose(rtOpen, ourself)
                       ELSE UNCHANGED <<ffi, rtOpen>>
             ELSE /\ lastOp' = rec
                  /\ UNCHANGED <<ffi, rtOpen, crashed>>
        /\ UNCHANGED <<slots, nextPort, handles>>

\* SendPort::post_integer(message) on the port with raw id `port`.
post_integer(port, accepted) ==
    LET sl == slots["Dart_PostInteger_DL"]
    IN  /\ CanOp
        /\ HasRuntime
        /\ send_port_from_raw(port) # {}
        /\ ffi' = ForeignCall(fpslot(sl) = "Ok", "Dart_PostInteger_DL", port)
        /\ nops' = nops + 1
        /\ lastOp' = OpRecord("post_integer", PostResult(sl, accepted), sl, port)
        /\ UNCHANGED <<slots, rtOpen, nextPort, handles, crashed>>

\* DartHandle::is_error: fpslot!(@call Dart_IsError_DL(handle)) of slot.rs.
is_error(answer) ==
    LET sl == slots["Dart_IsError_DL"]
    IN  /\ CanOp
        /\ ffi' = ForeignCall(slot_fpslot(sl) = "called", "Dart_IsError_DL",
                              ILLEGAL_PORT)
        /\ nops' = nops + 1
        /\ lastOp' = OpRecord("is_error",
                              IF slot_fpslot(sl) = "panic" THEN "panic"
                              ELSE IF answer THEN "true" ELSE "false",
                              sl, ILLEGAL_PORT)
        /\ UNCHANGED <<slots, rtOpen, nextPort, handles, crashed>>

\* No port operation has happened.
PortStart ==
    /\ rtOpen = {}
    /\ nextPort = 1
    /\ handles = <<>>
    /\ ffi = <<>>
    /\ crashed = FALSE
    /\ nops = 0
    /\ lastOp = NoOp

PortIdle ==
    /\ slots = [n \in SlotNames |-> "None"]
    /\ PortStart

(***************************************************************************)
(* cobject/type_enums.rs: the raw tags and their classification.  A        *)
(* Result is a record of two sets: Ok(x) has ok = {x}, Err(e) has          *)
(* err = {e}.                                                              *)
(***************************************************************************)

Ok(x) == [ok |-> {x}, err |-> {}]
Err(e) == [ok |-> {}, err |-> {e}]

\* The constants of Dart_CObject_Type and Dart_TypedData_Type in the order
\* of the C enumerations the bindings are generated from: the value of a
\* constant is its position, counted from 0.
Dart_CObject_Type ==
    <<"kNull", "kBool", "kInt32", "kInt64", "kDouble", "kString", "kArray",
      "kTypedData", "kExternalTypedData", "kSendPort", "kCapability",
      "kUnsupported", "kNumberOfTypes">>

Dart_TypedData_Type ==
    <<"kByteData", "kInt8", "kUint8", "kUint8Clamped", "kInt16", "kUint16",
      "kInt32", "kUint32", "kInt64", "kUint64", "kFloat32", "kFloat64",
      "kInt32x4", "kFloat32x4", "kFloat64x2", "kInvalid">>

NativeEnum(enum) ==
    IF enum = "CObjectType" THEN Dart_CObject_Type ELSE Dart_TypedData_Type

NativeValue(enum, const) ==
    (CHOOSE i \in 1..Len(NativeEnum(enum)) : NativeEnum(enum)[i] = const) - 1

\* The variant = constant lists of the two impl_from_to_pseudo_enums!
\* invocations.
CObjectTypeVariants ==
    <<<<"Null", "kNull">>, <<"Bool", "kBool">>, <<"Int32", "kInt32">>,
      <<"Int64", "kInt64">>, <<"Double", "kDouble">>, <<"String", "kString">>,
      <<"Array", "kArray">>, <<"TypedData", "kTypedData">>,
      <<"ExternalTypedData", "kExternalTypedData">>,
      <<"SendPort", "kSendPort">>, <<"Capability", "kCapability">>>>

TypedDataTypeVariants ==
    <<<<"ByteData", "kByteData">>, <<"Int8", "kInt8">>, <<"Uint8", "kUint8">>,
      <<"Uint8Clamped", "kUint8Clamped">>, <<"Int16", "kInt16">>,
      <<"Uint16", "kUint16">>, <<"Int32", "kInt32">>, <<"Uint32", "kUint32">>,
      <<"Int64", "kInt64">>, <<"Uint64", "kUint64">>, <<"Float32", "kFloat32">>,
      <<"Float64", "kFloat64">>, <<"Int32x4", "kInt32x4">>,
      <<"Float32x4", "kFloat32x4">>, <<"Float64x2", "kFloat64x2">>>>

Enums == {"CObjectType", "TypedDataType"}

Variants(enum) ==
    IF enum = "CObjectType" THEN CObjectTypeVariants ELSE TypedDataTypeVariants

\* The variants of an enum, and the raw tags of the model: every constant
\* of the native enumeration and ExtraTags values beyond them.
Kinds(enum) == {Variants(enum)[i][1] : i \in 1..Len(Variants(enum))}
RawTags(enum) == 0..(Len(NativeEnum(enum)) - 1 + ExtraTags)

\* The match arms whose constant has the value v.
Arms(enum, v) ==
    {i \in 1..Len(Variants(enum)) : NativeValue(enum, Variants(enum)[i][2]) = v}

try_from_FirstVariant(enum, v) == Ok(Variants(enum)[1][1])

\* TryFrom<native> for the enum: the first arm that matches, Err(v) if none.
try_from(enum, v) ==
    IF Arms(enum, v) # {}
      THEN Ok(Variants(enum)[CHOOSE i \in Arms(enum, v) :
                                 \A j \in Arms(enum, v) : i <= j][1])
      ELSE Err(v)

from_FirstConstant(enum, kind) == NativeValue(enum, Variants(enum)[1][2])

\* From<enum> for the native type.
from(enum, kind) ==
    NativeValue(enum,
        Variants(enum)[CHOOSE i \in 1..Len(Variants(enum)) :
                           Variants(enum)[i][1] = kind][2])

(***************************************************************************)
(* cobject.rs (CObject) and cobject/reference.rs (CObjectMut): reading a   *)
(* value.  An outcome is [crash, res]: whether the process died, and the   *)
(* Result of value_ref, whose Ok value is [variant, v].                    *)
(***************************************************************************)

Returned(res) == [crash |-> FALSE, res |-> res]
Crash == [crash |-> TRUE, res |-> Err("none")]

Variant(t, v) == Returned(Ok([variant |-> t, v |-> v]))

\* TypedDataRef::from_raw(data_type, ptr, len): the view of the buffer.
TypedDataRef_from_raw(data_type, len) == [data_type |-> data_type, len |-> len]

TypedDataValue_AlwaysExternal(o) ==
    LET r == try_from("TypedDataType", o.value.type_)
    IN  [data |-> IF r.ok = {} THEN r
                  ELSE Ok(TypedDataRef_from_raw(CHOOSE k \in r.ok : TRUE,
                                                o.value.length)),
         external_typed |-> TRUE]

\* The typed data variant: read_typed_data_type().map(from_raw) and the
\* flag.
TypedDataValue(o) ==
    LET r == try_from("TypedDataType", o.value.type_)
    IN  [data |-> IF r.ok = {} THEN r
                  ELSE Ok(TypedDataRef_from_raw(CHOOSE k \in r.ok : TRUE,
                                                o.value.length)),
         external_typed |-> (type(o) = "kExternalTypedData")]

\* CStr::from_ptr(as_string).to_bytes(): the bytes of the buffer, which is
\* the content followed by a 0 byte, before its first 0 byte.
CStr_to_bytes(content) == UntilNul(content \o <<0>>)

\* The outcomes of the arms that are the same in both files.
ScalarValue(o) ==
    IF type(o) = "kNull" THEN Variant("kNull", <<>>)
    ELSE IF type(o) = "kSendPort"
      THEN Variant("kSendPort",
                   send_port_from_raw_with_origin(o.value.id, o.value.origin_id))
    ELSE IF type(o) = "kString" THEN Variant("kString", CStr_to_bytes(o.value))
    ELSE Variant(type(o), o.value)

\* utils.rs prepare_dart_array_parts, as prepare_dart_array_parts_mut.
prepare_dart_array_parts(ptr_is_null, len) ==
    IF (len = 0) # ptr_is_null THEN "abort" ELSE "ok"

\* cobject.rs CObject::value_ref: the set of outcomes.  slice::from_raw_parts
\* on a null pointer is undefined behaviour: the slice or a crash.
CObject_value_ref(o) ==
    IF type(o) = "UnknownCObjectType" THEN {Returned(Err(o.type_))}
    ELSE IF type(o) = "kArray"
      THEN {Variant("kArray", o.values)} \cup (IF o.null_ptr THEN {Crash} ELSE {})
    ELSE IF type(o) \in {"kTypedData", "kExternalTypedData"}
      THEN {Variant("kTypedData", TypedDataValue(o))}
             \cup (IF o.null_ptr /\ TypedDataValue(o).data.ok # {}
                     THEN {Crash} ELSE {})
    ELSE {ScalarValue(o)}

\* cobject/reference.rs CObjectMut::value_ref: arrays and typed data go
\* through prepare_dart_array_parts, which aborts the process.
CObjectMut_value_ref(o) ==
    IF type(o) = "UnknownCObjectType" THEN {Returned(Err(o.type_))}
    ELSE IF type(o) = "kArray"
      THEN IF prepare_dart_array_parts(o.null_ptr, Len(o.values)) = "abort"
             THEN {Crash}
             ELSE {Variant("kArray", o.values)}
    ELSE IF type(o) \in {"kTypedData", "kExternalTypedData"}
      THEN IF /\ TypedDataValue(o).data.ok # {}
              /\ prepare_dart_array_parts(o.null_ptr, o.value.length) = "abort"
             THEN {Crash}
             ELSE {Variant("kTypedData", TypedDataValue(o))}
    ELSE {ScalarValue(o)}

\* The narrowing accessors and the variant each of them matches.
Accessors ==
    {<<"as_null", "kNull">>, <<"as_bool", "kBool">>, <<"as_int32", "kInt32">>,
     <<"as_int64", "kInt64">>, <<"as_double", "kDouble">>,
     <<"as_string", "kString">>, <<"as_array", "kArray">>,
     <<"as_send_port", "kSendPort">>, <<"as_capability", "kCapability">>}

\* as_X: if let Ok(X(v)) = self.value_ref(rt) { Some(v) } else { None }
as_variant(outcome, variant) ==
    [crash |-> outcome.crash,
     opt |-> IF /\ ~outcome.crash
                /\ \E r \in outcome.res.ok : r.variant = variant
               THEN {(CHOOSE r \in outcome.res.ok : TRUE).v} ELSE {}]

\* The record of a value operation.
NoValueOp == [op |-> "none", enum |-> "none", arg |-> <<>>, out |-> <<>>]

ValueOp(op, enum, input, out) ==
    [op |-> op, enum |-> enum, arg |-> input, out |-> out]

\* A raw tag is classified.
classify(enum) ==
    /\ \E v \in RawTags(enum) : vout' = ValueOp("try_from", enum, v, try_from(enum, v))
    /\ UNCHANGED <<objVars>>

\* A variant is converted to its raw tag.
to_raw(enum) ==
    /\ \E k \in Kinds(enum) : vout' = ValueOp("from", enum, k, from(enum, k))
    /\ UNCHANGED <<objVars>>

\* The three conversions of raw port ids.
wrap_send_port ==
    /\ \E port \in RawPortIds :
         vout' = ValueOp("send_port_from_raw", "none", <<port, ILLEGAL_PORT>>,
                         send_port_from_raw(port))
    /\ UNCHANGED <<objVars>>

wrap_send_port_with_origin ==
    /\ \E port \in RawPortIds : \E origin \in RawPortIds :
         vout' = ValueOp("send_port_from_raw_with_origin", "none", <<port, origin>>,
                         send_port_from_raw_with_origin(port, origin))
    /\ UNCHANGED <<objVars>>

wrap_native_recv_port ==
    /\ \E port \in RawPortIds :
         vout' = ValueOp("native_recv_port_from_raw", "none", <<port, ILLEGAL_PORT>>,
                         native_recv_port_from_raw(port))
    /\ UNCHANGED <<objVars>>

CanRead == owner = "caller" /\ ~aborted

\* cobject.rs: obj.as_X(rt)
CObject_as ==
    /\ CanRead
    /\ \E a \in Accessors : \E outcome \in CObject_value_ref(obj) :
         /\ vout' = ValueOp(a[1], "CObject", obj, as_variant(outcome, a[2]))
         /\ aborted' = outcome.crash
    /\ UNCHANGED <<obj, built, owner, slot, moved, finalized, strFreed, arrFreed,
                   posts, okPosts, last>>

\* cobject/reference.rs: obj.as_ref().as_X(rt)
CObjectMut_as ==
    /\ CanRead
    /\ \E a \in Accessors : \E outcome \in CObjectMut_value_ref(obj) :
         /\ vout' = ValueOp(a[1], "CObjectMut", obj, as_variant(outcome, a[2]))
         /\ aborted' = outcome.crash
    /\ UNCHANGED <<obj, built, owner, slot, moved, finalized, strFreed, arrFreed,
                   posts, okPosts, last>>

\* The two files the reading functions are in.
Files == {"CObject", "CObjectMut"}

value_ref(file, o) ==
    IF file = "CObject" THEN CObject_value_ref(o) ELSE CObjectMut_value_ref(o)

\* cobject.rs / cobject/reference.rs: obj.as_typed_data(rt)
as_typed_data ==
    /\ CanRead
    /\ \E file \in Files : \E outcome \in value_ref(file, obj) :
         /\ vout' = ValueOp("as_typed_data", file, obj,
                            as_variant(outcome, "kTypedData"))
         /\ aborted' = outcome.crash
    /\ UNCHANGED <<obj, built, owner, slot, moved, finalized, strFreed, arrFreed,
                   posts, okPosts, last>>

(***************************************************************************)
(* cobject.rs / cobject/owned.rs / cobject/rust_values.rs: the             *)
(* constructors of OwnedCObject, and reading back what they built.         *)
(***************************************************************************)

\* The strings, with and without nul bytes.
Strs == UNION {[1..n -> Bytes] : n \in 0..MaxLen}

\* CString::new(val): NulError if val holds a 0 byte.
CString_new(val) ==
    IF \E i \in DOMAIN val : val[i] = 0 THEN Err("NulError") ELSE Ok(val)

OwnedCObject_string_Unchecked(val) == Ok(string(val))

\* OwnedCObject::string: let val = CString::new(val.as_ref())?; Ok(..)
OwnedCObject_string(val) ==
    IF CString_new(val).ok = {} THEN Err("NulError")
    ELSE Ok(string(CHOOSE c \in CString_new(val).ok : TRUE))

\* OwnedCObject::send_port: let (id, origin_id) = port.as_raw();
OwnedCObject_send_port(port) ==
    send_port([id |-> as_raw(port)[1], origin_id |-> as_raw(port)[2]])

\* enum TypedData: the container each variant holds, [kind, elem].
TypedDataContainers ==
    <<<<"ByteData", "Box", "u8">>, <<"Int8", "Vec", "i8">>,
      <<"Uint8", "Vec", "u8">>, <<"Uint8Clamped", "Vec", "u8">>,
      <<"Int16", "Vec", "i16">>, <<"Uint16", "Vec", "u16">>,
      <<"Int32", "Vec", "i32">>, <<"Uint32", "Vec", "u32">>,
      <<"Int64", "Vec", "i64">>, <<"Uint64", "Vec", "u64">>,
      <<"Float32", "Vec", "f32">>, <<"Float64", "Vec", "f64">>,
      <<"Int32x4", "Vec", "[i32; 4]">>, <<"Float32x4", "Vec", "[f32; 4]">>,
      <<"Float64x2", "Vec", "[f64; 2]">>>>

TypedDataVariantNames ==
    {TypedDataContainers[i][1] : i \in DOMAIN TypedDataContainers}

Container(variant) ==
    LET i == CHOOSE j \in DOMAIN TypedDataContainers :
                 TypedDataContainers[j][1] = variant
    IN  [kind |-> TypedDataContainers[i][2], elem |-> TypedDataContainers[i][3]]

\* TypedData::data_type: each variant names the element type of its name.
data_type(variant) ==
    CHOOSE k \in Kinds("TypedDataType") : k = variant

\* impl_custom_external_typed_data_for_vec!: $st = $typed_data_variant
VecImpls ==
    <<<<"i8", "Int8">>, <<"u8", "Uint8">>, <<"i16", "Int16">>,
      <<"u16", "Uint16">>, <<"i32", "Int32">>, <<"u32", "Uint32">>,
      <<"i64", "Int64">>, <<"u64", "Uint64">>, <<"f32", "Float32">>,
      <<"f64", "Float64">>, <<"[i32; 4]", "Int32x4">>,
      <<"[f32; 4]", "Float32x4">>, <<"[f64; 2]", "Float64x2">>>>

VecElems == {VecImpls[i][1] : i \in DOMAIN VecImpls}

\* ExternalTypedData { type_, length, data, peer, callback }: peer is the
\* type of the boxed container behind the peer pointer, callback the type
\* drop_boxed_peer::<T> rebuilds the box as.
ExternalTypedData(ty, len, peer, callback) ==
    [type_ |-> from("TypedDataType", ty), length |-> len, peer |-> peer,
     callback |-> callback]

\* CustomExternalTyped for Vec<$st>
Vec_into_external_typed_data(st, len) ==
    LET i == CHOOSE j \in DOMAIN VecImpls : VecImpls[j][1] = st
    IN  ExternalTypedData(VecImpls[i][2], len, [kind |-> "Vec", elem |-> st],
                          [kind |-> "Vec", elem |-> st])

\* CustomExternalTyped for TypedData: the arms for ByteData and
\* Uint8Clamped are written out, the others go to the Vec of the variant.
TypedData_into_external_typed_data(variant, len) ==
    IF variant \in {"ByteData", "Uint8Clamped"}
      THEN ExternalTypedData("ByteData", len, Container(variant),
                             [kind |-> "Box", elem |-> "u8"])
      ELSE Vec_into_external_typed_data(Container(variant).elem, len)

\* OwnedCObject::typed_data(data) is external_typed_data(data).
typed_data(variant, len) ==
    external_typed_data(TypedData_into_external_typed_data(variant, len))

\* The send ports, the scalars and the array elements of the model.
SendPorts ==
    UNION {send_port_from_raw_with_origin(port, origin) :
              port \in RawPortIds, origin \in RawPortIds}
Scalars == {0 - 1, 0, 1}
Elements == {null, int32(1)}
Arrays == UNION {[1..n -> Elements] : n \in 0..MaxLen}

Call(ctor, input, res) == [ctor |-> ctor, input |-> input, res |-> res]

\* The constructor calls of the model and what each returns.
ConstructorCalls ==
    {Call("bool", v, Ok(bool(v))) : v \in BOOLEAN}
      \cup {Call("int32", v, Ok(int32(v))) : v \in Scalars}
      \cup {Call("int64", v, Ok(int64(v))) : v \in Scalars}
      \cup {Call("double", v, Ok(double(v))) : v \in Scalars}
      \cup {Call("capability", v, Ok(capability(v))) : v \in Scalars}
      \cup {Call("string", v, OwnedCObject_string(v)) : v \in Strs}
      \cup {Call("string_lossy", v, Ok(string_lossy(v))) : v \in Strs}
      \cup {Call("send_port", v, Ok(OwnedCObject_send_port(v))) : v \in SendPorts}
      \cup {Call("array", v, Ok(array(v))) : v \in Arrays}
      \cup {Call("typed_data", [variant |-> v, len |-> n], Ok(typed_data(v, n))) :
               v \in TypedDataVariantNames, n \in 0..MaxLen}
      \cup {Call("external_typed_data", [st |-> st, len |-> n],
                 Ok(external_typed_data(Vec_into_external_typed_data(st, n)))) :
               st \in VecElems, n \in 0..MaxLen}

\* A value is constructed and read back with value_ref; `read` is empty
\* when the constructor returned an error.
read_after_construct ==
    /\ \E c \in ConstructorCalls : \E file \in Files :
         IF c.res.ok = {}
           THEN vout' = ValueOp(c.ctor, file, c.input, [res |-> c.res, read |-> {}])
           ELSE \E outcome \in value_ref(file, CHOOSE o \in c.res.ok : TRUE) :
                  vout' = ValueOp(c.ctor, file, c.input,
                                  [res |-> c.res, read |-> {outcome}])
    /\ UNCHANGED <<objVars>>

\* No value operation has happened.
ValueIdle == vout = NoValueOp

(***************************************************************************)
(* integration-tests-bindings/src/lib.rs: the command handler and the      *)
(* adder thread.  The runtime is initialized, the slots are populated and  *)
(* the runtime accepts what is posted to a reply port.                     *)
(***************************************************************************)

ReplyPorts == {1, 2}
Commands == {"add", "hy", "send etd", "panic", "unknown"}

\* The messages [reply_port, cmd, a, b] of the model; the numbers only
\* matter for "add".
CmdMessages ==
    [reply : ReplyPorts, cmd : {"add"}, a : {0, 1}, b : {0, 1}]
      \cup [reply : ReplyPorts, cmd : Commands \ {"add"}, a : {0}, b : {0}]

Reply(port, kind, v) == [port |-> port, kind |-> kind, v |-> v]

\* Whether chan.send succeeds: the receiver lives until the thread is gone.
ReceiverAlive == adder # "exited"

\* What CmdHandler::handle_cmd and the wrapper around it post from the
\* calling thread itself: nothing for a command that was handed on, the
\* answer of "hy" and "send etd", the message of the panic that handle_panic
\* gets, and "Error: .." for an error of handle_cmd.
HandlerReplies(msg) ==
    IF msg.cmd = "add"
      THEN IF ReceiverAlive THEN <<>>
           ELSE <<Reply(msg.reply, "string", "Error: Adder was shutdown")>>
    ELSE IF msg.cmd = "hy" THEN <<Reply(msg.reply, "string", "hy hy ho")>>
    ELSE IF msg.cmd = "send etd" THEN <<Reply(msg.reply, "external_typed_data", "u8")>>
    ELSE IF msg.cmd = "panic" THEN <<Reply(msg.reply, "string", "IT IS A PANIC")>>
    ELSE <<Reply(msg.reply, "string", "Error: Unknown Command")>>

\* CmdHandler::handle_message(rt, ourself, msg): the first use of
\* ADDER_THREAD spawns the thread; "add" sends (a, b, respond_to) over the
\* channel.
CmdHandler_handle_message(msg) ==
    /\ Len(inbox) < MaxMsgs
    /\ inbox' = Append(inbox, msg)
    /\ replies' = replies \o HandlerReplies(msg)
    /\ chan' = IF msg.cmd = "add" /\ ReceiverAlive
                 THEN Append(chan, [a |-> msg.a, b |-> msg.b, port |-> msg.reply])
                 ELSE chan
    /\ adder' = IF msg.cmd = "add" /\ adder = "unspawned" THEN "running" ELSE adder

\* ADDER_THREAD: one turn of the loop: receiver.recv(), the sum is posted
\* with post_integer, and the loop is left if the sum is 0.
ADDER_THREAD_recv ==
    /\ adder = "running"
    /\ chan # <<>>
    /\ LET res == Head(chan).a + Head(chan).b
       IN  /\ replies' = Append(replies, Reply(Head(chan).port, "integer", res))
           /\ adder' = IF res = 0 THEN "leaving" ELSE "running"
    /\ chan' = Tail(chan)
    /\ UNCHANGED inbox

\* ADDER_THREAD: the closure returns and the receiver is dropped with what
\* is still in the channel.
ADDER_THREAD_exit ==
    /\ adder = "leaving"
    /\ adder' = "exited"
    /\ chan' = <<>>
    /\ UNCHANGED <<replies, inbox>>

\* Nothing was received.
AdderIdle ==
    /\ chan = <<>>
    /\ adder = "unspawned"
    /\ replies = <<>>
    /\ inbox = <<>>

\* The gate as the object specification finds it: a SendPort exists, so the
\* runtime was initialized.
GateReady ==
    /\ INIT_ONCE = "Ready"
    /\ pc = [t \in Threads |-> "idle"]
    /\ arg = [t \in Threads |-> 1]
    /\ status = [t \in Threads |-> 0]
    /\ calls = 0
    /\ ffiLog = <<[data |-> 1, status |-> 0]>>
    /\ initRets = {"Ok"}
    /\ instObs = {}

ObjInitWith(o, sl) ==
    /\ built = o
    /\ obj = o
    /\ owner = "caller"
    /\ aborted = FALSE
    /\ slot = sl
    /\ moved = [p \in PathsOf(o) |-> 0]
    /\ finalized = [p \in PathsOf(o) |-> 0]
    /\ strFreed = [p \in PathsOf(o) |-> 0]
    /\ arrFreed = [p \in PathsOf(o) |-> 0]
    /\ posts = 0
    /\ okPosts = 0
    /\ last = [op |-> "none", enq |-> FALSE, ret |-> "none", before |-> o]

Init ==
    /\ GateReady
    /\ PortIdle
    /\ ValueIdle
    /\ AdderIdle
    /\ \E o \in Trees(MaxNodes) : \E sl \in {"Some", "None"} : ObjInitWith(o, sl)

Next ==
    \/ \E accepted \in BOOLEAN : post_cobject_mut(accepted)
           /\ UNCHANGED <<gateVars, portVars, valVars, adderVars>>
    \/ \E accepted \in BOOLEAN : post_cobject_ref(accepted)
           /\ UNCHANGED <<gateVars, portVars, valVars, adderVars>>
    \/ \E accepted \in BOOLEAN : port_post_cobject(accepted)
           /\ UNCHANGED <<gateVars, portVars, valVars, adderVars>>
    \/ \E accepted \in BOOLEAN : ports_post_cobject(accepted)
           /\ UNCHANGED <<gateVars, portVars, valVars, adderVars>>
    \/ drop /\ UNCHANGED <<gateVars, portVars, valVars, adderVars>>

Spec == Init /\ [][Next]_vars

GateInit ==
    /\ ObjInitWith(null, "None")
    /\ PortIdle
    /\ ValueIdle
    /\ AdderIdle
    /\ INIT_ONCE = "Uninitialized"
    /\ pc = [t \in Threads |-> "idle"]
    /\ arg = [t \in Threads |-> 1]
    /\ status = [t \in Threads |-> 0]
    /\ calls = 0
    /\ ffiLog = <<>>
    /\ initRets = {}
    /\ instObs = {}

GateNext ==
    \/ \E t \in Threads : \E data \in InitData :
           initialize_dart_api_dl(t, data)
           /\ UNCHANGED <<objVars, portVars, valVars, adderVars>>
    \/ \E t \in Threads : get_or_init(t) /\ UNCHANGED <<objVars, portVars, valVars, adderVars>>
    \/ \E t \in Threads : Dart_InitializeApiDL(t) /\ UNCHANGED <<objVars, portVars, valVars, adderVars>>
    \/ \E t \in Threads : store_result(t) /\ UNCHANGED <<objVars, portVars, valVars, adderVars>>
    \/ \E t \in Threads : wait_for_init(t) /\ UNCHANGED <<objVars, portVars, valVars, adderVars>>
    \/ \E t \in Threads : clone_result(t) /\ UNCHANGED <<objVars, portVars, valVars, adderVars>>
    \/ \E t \in Threads : instance_call(t) /\ UNCHANGED <<objVars, portVars, valVars, adderVars>>

SpecGate == GateInit /\ [][GateNext]_vars

(***************************************************************************)
(* The ports specification: the runtime was or was not initialized, the    *)
(* slots a successful initialization left are populated or not, and ports  *)
(* are created, wrapped, dropped, leaked, posted to and called back.       *)
(***************************************************************************)

GateStates == {"Uninitialized", "Initializing", "Ready", "Failed"}

\* The gate in state g: before any call, while thread 1 is inside the
\* foreign call, after a successful and after a refused initialization.
GateSnapshot(g) ==
    /\ INIT_ONCE = g
    /\ pc = [t \in Threads |-> IF g = "Initializing" /\ t = 1 THEN "closure" ELSE "idle"]
    /\ arg = [t \in Threads |-> 1]
    /\ status = [t \in Threads |-> IF g = "Failed" /\ t = 1 THEN 0 - 1 ELSE 0]
    /\ calls = 0
    /\ ffiLog = IF g = "Ready" THEN <<[data |-> 1, status |-> 0]>>
                ELSE IF g = "Failed" THEN <<[data |-> 1, status |-> 0 - 1]>>
                ELSE <<>>
    /\ initRets = IF g = "Ready" THEN {"Ok"}
                  ELSE IF g = "Failed" THEN {"InitFailed"}
                  ELSE {}
    /\ instObs = {}

PortInit ==
    /\ \E g \in GateStates : GateSnapshot(g)
    /\ ObjInitWith(null, "None")
    /\ ValueIdle
    /\ AdderIdle
    /\ slots \in IF INIT_ONCE = "Ready" THEN [SlotNames -> {"Some", "None"}]
                                       ELSE {[n \in SlotNames |-> "None"]}
    /\ PortStart

PortNext ==
    \/ \E nul_in_name \in BOOLEAN : \E granted \in BOOLEAN :
           native_recv_port(nul_in_name, granted)
           /\ UNCHANGED <<gateVars, objVars, valVars, adderVars>>
    \/ \E port \in RawPortIds :
           NativeRecvPort_from_raw(port)
           /\ UNCHANGED <<gateVars, objVars, valVars, adderVars>>
    \/ \E i \in DOMAIN handles :
           NativeRecvPort_drop(i)
           /\ UNCHANGED <<gateVars, objVars, valVars, adderVars>>
    \/ \E i \in DOMAIN handles :
           NativeRecvPort_leak(i)
           /\ UNCHANGED <<gateVars, objVars, valVars, adderVars>>
    \/ \E ourself \in RawPortIds : \E func \in FuncBehaviours :
         \E on_panic \in OnPanicBehaviours : \E cleanup \in BOOLEAN :
           handle_message(ourself, func, on_panic, cleanup)
           /\ UNCHANGED <<gateVars, objVars, valVars, adderVars>>
    \/ \E port \in RawPortIds : \E accepted \in BOOLEAN :
           post_integer(port, accepted)
           /\ UNCHANGED <<gateVars, objVars, valVars, adderVars>>
    \/ \E answer \in BOOLEAN :
           is_error(answer)
           /\ UNCHANGED <<gateVars, objVars, valVars, adderVars>>

SpecPort == PortInit /\ [][PortNext]_vars

(***************************************************************************)
(* The values specification: a Dart_CObject with any tag, as the runtime   *)
(* hands it over or as it was built here, is read and dropped; raw tags    *)
(* and raw port ids are converted.                                         *)
(***************************************************************************)

\* The strings a C string can hold.
CStrings == {m \in Messages : UntilNul(m) = m}

\* The (length, pointer is null) pairs of a sound array or typed data value:
\* empty with a null pointer, empty with a non-null pointer (what a Vec or a
\* boxed slice without elements has), and one element.
ArrayShapes == {<<0, TRUE>>, <<0, FALSE>>, <<1, FALSE>>}

RawObjects ==
    {wrap_raw(t, 1, <<>>) :
        t \in {"kNull", "kBool", "kInt32", "kInt64", "kDouble", "kCapability",
               "kUnsupported", "kNumberOfTypes"}}
      \cup {wrap_raw("kString", m, <<>>) : m \in CStrings}
      \cup {[wrap_raw("kArray", 0, [i \in 1..sh[1] |-> null])
                EXCEPT !.null_ptr = sh[2]] : sh \in ArrayShapes}
      \cup {wrap_raw("kSendPort", [id |-> port, origin_id |-> origin], <<>>) :
               port \in RawPortIds, origin \in RawPortIds}
      \cup {[wrap_raw(t, [type_ |-> ty, length |-> sh[1]], <<>>)
                EXCEPT !.null_ptr = sh[2]] :
               t \in {"kTypedData", "kExternalTypedData"},
               ty \in {NativeValue("TypedDataType", "kUint8"),
                       NativeValue("TypedDataType", "kInvalid")},
               sh \in ArrayShapes}

ValueInit ==
    /\ GateReady
    /\ PortIdle
    /\ ValueIdle
    /\ AdderIdle
    /\ \E o \in RawObjects : ObjInitWith(o, "Some")

ValueNext ==
    \/ \E enum \in Enums : classify(enum) /\ UNCHANGED <<gateVars, portVars, adderVars>>
    \/ \E enum \in Enums : to_raw(enum) /\ UNCHANGED <<gateVars, portVars, adderVars>>
    \/ wrap_send_port /\ UNCHANGED <<gateVars, portVars, adderVars>>
    \/ wrap_send_port_with_origin /\ UNCHANGED <<gateVars, portVars, adderVars>>
    \/ wrap_native_recv_port /\ UNCHANGED <<gateVars, portVars, adderVars>>
    \/ CObject_as /\ UNCHANGED <<gateVars, portVars, adderVars>>
    \/ CObjectMut_as /\ UNCHANGED <<gateVars, portVars, adderVars>>
    \/ as_typed_data /\ UNCHANGED <<gateVars, portVars, adderVars>>
    \/ drop /\ UNCHANGED <<gateVars, portVars, valVars, adderVars>>

SpecValue == ValueInit /\ [][ValueNext]_vars

(***************************************************************************)
(* The constructors specification: values are built by the constructors    *)
(* of OwnedCObject and read back.                                          *)
(***************************************************************************)

BuildInit ==
    /\ GateReady
    /\ PortIdle
    /\ ValueIdle
    /\ AdderIdle
    /\ ObjInitWith(null, "Some")

BuildNext == read_after_construct /\ UNCHANGED <<gateVars, portVars, adderVars>>

SpecBuild == BuildInit /\ [][BuildNext]_vars

(***************************************************************************)
(* The adder specification: the runtime delivers messages to the command   *)
(* handler while the adder thread runs.                                    *)
(***************************************************************************)

AdderInit ==
    /\ GateReady
    /\ slots = [n \in SlotNames |-> "Some"]
    /\ PortStart
    /\ ValueIdle
    /\ AdderIdle
    /\ ObjInitWith(null, "Some")

AdderNext ==
    \/ \E msg \in CmdMessages :
           CmdHandler_handle_message(msg)
           /\ UNCHANGED <<gateVars, objVars, portVars, valVars>>
    \/ ADDER_THREAD_recv /\ UNCHANGED <<gateVars, objVars, portVars, valVars>>
    \/ ADDER_THREAD_exit /\ UNCHANGED <<gateVars, objVars, portVars, valVars>>

SpecAdder == AdderInit /\ [][AdderNext]_vars

(***************************************************************************)
(* Claims about the initialization gate, checked under SpecGate.           *)
(***************************************************************************)

\* C1: however many threads call initialize_dart_api_dl concurrently, the
\* foreign function Dart_InitializeApiDL is executed at most once, exactly
\* once as soon as any caller has returned, and every caller returns the same
\* outcome: Ok if that call returned 0, InitFailed otherwise.
C1_SingleInitialization ==
    /\ Len(ffiLog) <= 1
    /\ Cardinality(initRets) <= 1
    /\ initRets # {} =>
         /\ Len(ffiLog) = 1
         /\ initRets = {IF ffiLog[1].status = 0 THEN "Ok" ELSE "InitFailed"}

\* Two threads are inside initialize_dart_api_dl at once: one has executed
\* the foreign call, the other is blocked on the cell.
C1_Witness ==
    \E t1, t2 \in Threads :
        /\ t1 # t2
        /\ pc[t1] = "store"
        /\ pc[t2] = "wait"

GateMoves ==
    { <<"Uninitialized", "Initializing">>,
      <<"Initializing", "Ready">>,
      <<"Initializing", "Failed">> }

\* C8: the gate only moves Uninitialized -> Initializing -> Ready or Failed;
\* Ready and Failed are terminal, no step taken from them executes
\* Dart_InitializeApiDL, and every result returned is the stored one.
C8_GateTerminal ==
    [][ /\ (INIT_ONCE' # INIT_ONCE => <<INIT_ONCE, INIT_ONCE'>> \in GateMoves)
        /\ (INIT_ONCE \in {"Ready", "Failed"} =>
               /\ INIT_ONCE' = INIT_ONCE
               /\ ffiLog' = ffiLog
               /\ initRets' \subseteq {StoredResult(INIT_ONCE)}) ]_vars

\* A stored failure is returned to a caller that passed another data pointer
\* than the one of the failed attempt.
C8_Witness ==
    /\ INIT_ONCE = "Failed"
    /\ "InitFailed" \in initRets
    /\ \E t \in Threads : pc[t] = "idle" /\ arg[t] # ffiLog[1].data
    /\ \E t \in Threads : pc[t] = "clone" /\ arg[t] # ffiLog[1].data

C10_TokenOnlyAfterSuccess ==
    ("Ok" \in initRets \/ \E o \in instObs : o.res = "Ok") =>
        /\ INIT_ONCE = "Ready"
        /\ \E i \in 1..Len(ffiLog) : ffiLog[i].status = 0

\* Both entry points have handed out a token.
C10_Witness ==
    /\ "Ok" \in initRets
    /\ \E o \in instObs : o.res = "Ok"

(***************************************************************************)
(* Claims about posting and dropping an OwnedCObject, checked under Spec.  *)
(***************************************************************************)

PostInPlace == {"post_cobject_mut", "post_cobject_ref"}

\* C2: for a value built as ExternalTypedData, over any sequence of post
\* attempts followed by a drop, the finalizer is never owed twice (invoked by
\* drop and handed to the runtime), and once the value is dropped it was
\* invoked by drop exactly once if no post succeeded and not at all if one
\* did, in which case the runtime holds it exactly once.
C2_FinalizerExactlyOnce ==
    built.type_ = "kExternalTypedData" =>
        /\ finalized[<<>>] + moved[<<>>] <= 1
        /\ owner = "none" =>
             /\ finalized[<<>>] + moved[<<>>] = 1
             /\ finalized[<<>>] = (IF okPosts > 0 THEN 0 ELSE 1)

\* A post failed, a later one succeeded, and the value was dropped.
C2_Witness ==
    /\ built.type_ = "kExternalTypedData"
    /\ last.op = "drop"
    /\ posts = 2
    /\ okPosts = 1
    /\ last.before.type_ = "kNull"
    /\ moved[<<>>] = 1
    /\ finalized[<<>>] = 0

\* C3: a post that returns Ok for an ExternalTypedData value leaves its
\* discriminant kNull (the payload untouched), a post that returns Err leaves
\* the value as it was, and the drop of a value some post moved away does
\* nothing.
C3_NulledIffPosted ==
    /\ (last.op \in PostInPlace /\ last.before.type_ = "kExternalTypedData") =>
          IF last.ret = "Ok"
            THEN /\ obj.type_ = "kNull"
                 /\ obj.value = last.before.value
                 /\ last.enq
            ELSE obj = last.before
    /\ (last.op = "drop" /\ built.type_ = "kExternalTypedData" /\ okPosts > 0) =>
          /\ last.ret = "nothing"
          /\ finalized[<<>>] = 0

\* post_cobject_ref has just returned Ok for an ExternalTypedData value.
C3_Witness ==
    /\ last.op = "post_cobject_ref"
    /\ last.before.type_ = "kExternalTypedData"
    /\ last.ret = "Ok"
    /\ obj.type_ = "kNull"

\* The tree with every ExternalTypedData node, at any depth, rewritten to
\* kNull and everything else as it was.
RECURSIVE AllExternalNulled(_)
AllExternalNulled(o) ==
    IF o.type_ = "kExternalTypedData"
      THEN [o EXCEPT !.type_ = "kNull"]
      ELSE [o EXCEPT !.values = [i \in 1..Len(o.values) |-> AllExternalNulled(o.values[i])]]

\* C4: after a successful post of an Array value every ExternalTypedData
\* value nested in it at any depth has the discriminant kNull, every other
\* element and the array structure are unchanged (and the post returned).
C4_NestedNulled ==
    (last.op \in PostInPlace /\ last.before.type_ = "kArray" /\ last.enq) =>
        /\ ~aborted
        /\ last.ret = "Ok"
        /\ obj = AllExternalNulled(last.before)

\* C5: when the runtime did not enqueue the message (the foreign call
\* returned false or the slot is unpopulated) post_cobject_mut and
\* post_cobject_ref return Err and leave the whole tree as it was, still
\* owned by the caller; an ExternalTypedData value that was only posted
\* without success has its finalizer invoked exactly once by its drop.
C5_FailedPostLeavesValue ==
    /\ (last.op \in PostInPlace /\ ~last.enq) =>
          /\ last.ret = "Err"
          /\ obj = last.before
          /\ owner = "caller"
          /\ ~aborted
    /\ (built.type_ = "kExternalTypedData" /\ owner = "none" /\ okPosts = 0) =>
          /\ finalized[<<>>] = 1
          /\ moved[<<>>] = 0

\* An ExternalTypedData value was posted through an unpopulated slot and
\* then dropped.
C5_Witness ==
    /\ built.type_ = "kExternalTypedData"
    /\ slot = "None"
    /\ posts = 2
    /\ okPosts = 0
    /\ last.op = "drop"
    /\ finalized[<<>>] = 1

\* C6 as claimed: when the owning post_cobject fails, the value is unchanged
\* and still owned by the caller.
C6_Original ==
    (last.op = "post_cobject" /\ ~last.enq) =>
        /\ owner = "caller"
        /\ obj = last.before

\* C6 as amended: when the owning post_cobject fails it returns Err and the
\* value is gone: it was dropped inside the call, in the state the failed post
\* left it (unchanged), so the finalizer of an ExternalTypedData value was
\* invoked exactly once by that drop, a string buffer or the backing
\* allocation of an array was freed once, and nothing was handed to the
\* runtime by this call.
C6_FailedOwningPostDrops ==
    (last.op = "post_cobject" /\ ~last.enq) =>
        /\ last.ret = "Err"
        /\ owner = "none"
        /\ ~aborted
        /\ obj.value = last.before.value
        /\ obj.values = last.before.values
        /\ last.before.type_ = "kExternalTypedData" =>
             /\ obj.type_ = "kNull"
             /\ finalized[<<>>] = 1
             /\ moved[<<>>] = 0
        /\ last.before.type_ = "kString" => strFreed[<<>>] = 1
        /\ last.before.type_ = "kArray" => arrFreed[<<>>] = 1

\* The owning post of an ExternalTypedData value has failed.
C6_Witness ==
    /\ last.op = "post_cobject"
    /\ ~last.enq
    /\ last.before.type_ = "kExternalTypedData"
    /\ owner = "none"
    /\ finalized[<<>>] = 1

\* C7: dropping a value releases everything it owns exactly once: nothing
\* for the kinds without resources, the buffer of a String, and for an Array
\* the backing allocation and, recursively, every nested string, every
\* nested array and the finalizer of every nested unsent ExternalTypedData.
C7_DropReleasesAll ==
    last.op = "drop" =>
        \A p \in PathsOf(last.before) :
            LET n == NodeAt(last.before, p) IN
            /\ strFreed[p] = (IF n.type_ = "kString" THEN 1 ELSE 0)
            /\ arrFreed[p] = (IF n.type_ = "kArray" THEN 1 ELSE 0)
            /\ finalized[p] =
                   (IF n.type_ = "kExternalTypedData" /\ moved[p] = 0 THEN 1 ELSE 0)

(***************************************************************************)
(* Claims about the dispatch wrapper, the failure boundary, the receive    *)
(* ports and the function pointer slots, checked under SpecPort.           *)
(***************************************************************************)

\* The last operation was a callback that got as far as the failure boundary.
Dispatched == lastOp.op = "handle_message" /\ Dispatches(lastOp.rt, lastOp.port)

StringPayload(pl) == pl.type \in {"String", "&'static str"}

\* C11 as stated: on_panic runs exactly once if func panics and never if
\* func returns; the object it gets is a string CObject equal to the panic
\* message for a String or &'static str payload and the fallback string for
\* a payload of another type.
C11_Original ==
    Dispatched =>
      /\ lastOp.func_calls = 1
      /\ lastOp.on_panic_calls = (IF lastOp.func.panics THEN 1 ELSE 0)
      /\ lastOp.func.panics =>
           /\ type(lastOp.panic_obj) = "kString"
           /\ lastOp.panic_obj.value =
                  (IF StringPayload(lastOp.func.payload)
                     THEN lastOp.func.payload.msg ELSE FallbackMsg)

\* C11: on_panic runs exactly once if func panics and never if func
\* returns; the object it gets is a string CObject holding the panic message
\* up to its first nul byte for a String or &'static str payload, and the
\* fallback string for a payload of another type.
C11_PanicAsCObject ==
    Dispatched =>
      /\ lastOp.func_calls = 1
      /\ lastOp.on_panic_calls = (IF lastOp.func.panics THEN 1 ELSE 0)
      /\ lastOp.func.panics =>
           /\ type(lastOp.panic_obj) = "kString"
           /\ lastOp.panic_obj.value =
                  (IF StringPayload(lastOp.func.payload)
                     THEN UntilNul(lastOp.func.payload.msg) ELSE FallbackMsg)

\* A handler panicked with a String that holds a nul byte, and the panic
\* handler ran.
C11_Witness ==
    /\ Dispatched
    /\ lastOp.func.panics
    /\ lastOp.func.payload.type = "String"
    /\ UntilNul(lastOp.func.payload.msg) # lastOp.func.payload.msg
    /\ lastOp.on_panic_calls = 1

\* C12: no panic escapes catch_unwind_panic_as_cobject: whatever func and
\* on_panic do, the call returns normally.
C12_NoPanicEscapes == Dispatched => lastOp.ret = "returned" /\ ~crashed

\* C13: a callback while DartRuntime::instance() is an error, or for the
\* destination ILLEGAL_PORT, returns normally without calling handle_message
\* or handle_panic, without any foreign call and without closing a port.
C13_QuietAbort ==
    (/\ lastOp.op = "handle_message"
     /\ (lastOp.rt # "Ok" \/ lastOp.port = ILLEGAL_PORT)) =>
      /\ lastOp.ret = "returned"
      /\ ~crashed
      /\ lastOp.func_calls = 0
      /\ lastOp.on_panic_calls = 0
      /\ ffi = lastOp.ffi_before
      /\ rtOpen = lastOp.open_before

\* The callback came for a legal port while the runtime was not initialized,
\* with a handler that would have panicked.
C13_Witness ==
    /\ lastOp.op = "handle_message"
    /\ lastOp.rt # "Ok"
    /\ lastOp.port # ILLEGAL_PORT
    /\ lastOp.func.panics
    /\ lastOp.ret = "returned"

\* The close calls in the log, the handles that were dropped, and the ports
\* that were created and closed afterwards.
CloseCallsOf(log) == {i \in DOMAIN log : log[i].fn = "Dart_CloseNativePort_DL"}
DroppedHandles == {i \in DOMAIN handles : handles[i].st = "Dropped"}
Created(port) ==
    \E i \in DOMAIN ffi : ffi[i] = [fn |-> "Dart_NewNativePort_DL", port |-> port]
ClosedAfterCreation(port) ==
    \E i \in DOMAIN ffi : \E j \in DOMAIN ffi :
       /\ i < j
       /\ ffi[i] = [fn |-> "Dart_NewNativePort_DL", port |-> port]
       /\ ffi[j] = [fn |-> "Dart_CloseNativePort_DL", port |-> port]

\* The handle the dispatch wrapper made was dropped by a panic unwinding
\* through the wrapper.
UnwoundDrops == IF Dispatched /\ lastOp.ret = "unwound" THEN 1 ELSE 0

\* What a drop with a populated slot and what a leak leave behind.
DropClosed ==
    /\ ffi = Append(lastOp.ffi_before,
                    [fn |-> "Dart_CloseNativePort_DL", port |-> lastOp.port])
    /\ rtOpen = lastOp.open_before \ {lastOp.port}
NothingCalled == ffi = lastOp.ffi_before /\ rtOpen = lastOp.open_before

\* A port is open exactly from its creation to the first close call for it.
OpenUntilClosed ==
    \A port \in 1..MaxPortId :
       port \in rtOpen <=> (Created(port) /\ ~ClosedAfterCreation(port))

C15_UnpopulatedSlotTolerated ==
    lastOp.slot = "None" =>
       lastOp.ret \in {"Err", "Unreachable", "NulInName", "nothing"}

(***************************************************************************)
(* Claims about reading, converting and dropping values, checked under     *)
(* SpecValue.                                                              *)
(***************************************************************************)

\* The discriminants Drop for OwnedCObject has an arm for.
DroppableTypes == CObjectType \ {"kTypedData"}

\* C16: dropping an OwnedCObject whose discriminant is kTypedData or not a
\* known one panics, frees no buffer, calls no finalizer and leaves the
\* value as it was.
C16_DropPanicsWithoutCleanup ==
    (last.op = "drop" /\ last.before.type_ \notin DroppableTypes) =>
      /\ last.ret = "panic"
      /\ obj = last.before
      /\ \A p \in DOMAIN finalized :
            finalized[p] = 0 /\ strFreed[p] = 0 /\ arrFreed[p] = 0

\* A value with the discriminant kTypedData was dropped.
C16_Witness ==
    /\ last.op = "drop"
    /\ last.before.type_ = "kTypedData"
    /\ last.ret = "panic"

PortWrappers ==
    {"send_port_from_raw", "send_port_from_raw_with_origin",
     "native_recv_port_from_raw"}

\* C17: each wrapper of a raw port id returns None exactly for ILLEGAL_PORT
\* and otherwise Some port whose as_raw() is (port, origin), the origin
\* being ILLEGAL_PORT where none is given; a kSendPort object with the id
\* ILLEGAL_PORT reads as Some(None).
C17_PortFromRaw ==
    /\ vout.op \in PortWrappers =>
         /\ vout.out = {} <=> vout.arg[1] = ILLEGAL_PORT
         /\ \A sp \in vout.out : as_raw(sp) = vout.arg
    /\ (vout.op = "as_send_port" /\ vout.arg.type_ = "kSendPort") =>
         /\ ~vout.out.crash
         /\ IF vout.arg.value.id = ILLEGAL_PORT
              THEN vout.out.opt = {{}}
              ELSE vout.out.opt =
                     {{[port |-> vout.arg.value.id,
                        origin |-> vout.arg.value.origin_id]}}

\* ILLEGAL_PORT was wrapped together with an origin that is a legal id.
C17_Witness ==
    /\ vout.op = "send_port_from_raw_with_origin"
    /\ vout.arg[1] = ILLEGAL_PORT
    /\ vout.arg[2] # ILLEGAL_PORT
    /\ vout.out = {}

\* C18: for every variant K of CObjectType and of TypedDataType, the raw
\* tag of K classifies back to Ok(K), and no other variant has that raw tag.
C18_RoundTrip ==
    vout.op = "from" =>
      /\ vout.out \in RawTags(vout.enum)
      /\ try_from(vout.enum, vout.out) = Ok(vout.arg)
      /\ \A k \in Kinds(vout.enum) :
            from(vout.enum, k) = vout.out => k = vout.arg

\* The last variant of TypedDataType was converted to its raw tag.
C18_Witness ==
    /\ vout.op = "from"
    /\ vout.enum = "TypedDataType"
    /\ vout.arg = "Float64x2"

\* The reserved constants, and the raw tags of the other constants.
Sentinels == {"kUnsupported", "kNumberOfTypes", "kInvalid"}
KnownTags(enum) ==
    {i - 1 : i \in {j \in 1..Len(NativeEnum(enum)) :
                       NativeEnum(enum)[j] \notin Sentinels}}

\* C19: a raw tag outside the known ones, the reserved constants included,
\* classifies as the unknown-type error carrying that tag, for object kinds
\* and for typed data element types.
C19_UnknownTag ==
    (vout.op = "try_from" /\ vout.arg \notin KnownTags(vout.enum)) =>
       vout.out = Err(vout.arg)

\* The raw tag kUnsupported was classified.
C19_Witness ==
    /\ vout.op = "try_from"
    /\ vout.enum = "CObjectType"
    /\ vout.arg = NativeValue("CObjectType", "kUnsupported")
    /\ vout.out.ok = {}

AccessorNames == {a[1] : a \in Accessors}
VariantOf(name) == (CHOOSE a \in Accessors : a[1] = name)[2]

\* C20: every accessor as_X returns, and it returns Some exactly when the
\* type of the object is X: a wrong variant or an unknown tag gives None.
C20_Narrowing ==
    vout.op \in AccessorNames =>
      /\ ~vout.out.crash
      /\ vout.out.opt # {} <=> type(vout.arg) = VariantOf(vout.op)

(***************************************************************************)
(* Claims about port creation and the close calls, checked under SpecPort. *)
(***************************************************************************)

NewPortCall == [fn |-> "Dart_NewNativePort_DL", port |-> lastOp.port]

\* C25: creating a native receive port fails with NulInName when the name
\* holds a nul byte, and then Dart_NewNativePort_DL is not called; with
\* Unreachable when the slot of that function is unpopulated; with
\* DartFailed when the runtime answers ILLEGAL_PORT; otherwise it returns a
\* handle of an open port with exactly the id the runtime answered.  A
\* failed creation makes no handle.
C25_PortCreation ==
    lastOp.op = "native_recv_port" =>
       IF lastOp.nul_in_name
         THEN /\ lastOp.ret = "NulInName"
              /\ ffi = lastOp.ffi_before
              /\ handles = lastOp.handles_before
       ELSE IF lastOp.slot = "None"
         THEN /\ lastOp.ret = "Unreachable"
              /\ ffi = lastOp.ffi_before
              /\ handles = lastOp.handles_before
       ELSE /\ ffi = Append(lastOp.ffi_before, NewPortCall)
            /\ IF lastOp.port = ILLEGAL_PORT
                 THEN /\ lastOp.ret = "DartFailed"
                      /\ handles = lastOp.handles_before
                      /\ rtOpen = lastOp.open_before
                 ELSE /\ lastOp.ret = "Ok"
                      /\ handles = Append(lastOp.handles_before,
                                          [port |-> lastOp.port, st |-> "Live"])
                      /\ lastOp.port \in rtOpen

\* A port was asked for under a name with a nul byte while the slot of
\* Dart_NewNativePort_DL was populated.
C25_Witness ==
    /\ lastOp.op = "native_recv_port"
    /\ lastOp.nul_in_name
    /\ lastOp.slot = "Some"
    /\ lastOp.ret = "NulInName"

\* C29: dispatching a message never closes the port it runs for: whatever
\* handle_message and handle_panic do, the callback issues no foreign call
\* and leaves the runtime's ports as they were.
C29_DispatchNeverCloses ==
    lastOp.op = "handle_message" =>
       /\ ffi = lastOp.ffi_before
       /\ rtOpen = lastOp.open_before

\* C30: over every sequence of native_recv_port, native_recv_port_from_raw,
\* leak and drop, Dart_CloseNativePort_DL is called at most once for each
\* port id.
C30_ClosedAtMostOnce ==
    UnwoundDrops = 0 =>
       \A port \in RawPortIds :
          Cardinality({i \in CloseCallsOf(ffi) : ffi[i].port = port}) <= 1

(***************************************************************************)
(* A claim about posting values without external typed data, checked       *)
(* under Spec.                                                             *)
(***************************************************************************)

\* C27: a successful post of a value without any ExternalTypedData in it
\* returns Ok and leaves the whole value as it was, so that it can be posted
\* again.
C27_PostCopies ==
    (/\ last.op \in PostInPlace
     /\ last.enq
     /\ ExternalPaths(last.before) = {}) =>
        /\ ~aborted
        /\ last.ret = "Ok"
        /\ obj = last.before

(***************************************************************************)
(* Claims about typed data and the constructors, checked under SpecValue   *)
(* and SpecBuild.                                                          *)
(***************************************************************************)

TypedDataKinds == {"kTypedData", "kExternalTypedData"}

\* The same payload under the other of the two typed data discriminants.
Twin(o) ==
    [o EXCEPT !.type_ = IF @ = "kTypedData" THEN "kExternalTypedData"
                                            ELSE "kTypedData"]

\* What as_typed_data can answer for an object, without the flag.
ViewsOf(file, o) ==
    {[crash |-> a.crash, data |-> {v.data : v \in a.opt}] :
        a \in {as_variant(outcome, "kTypedData") : outcome \in value_ref(file, o)}}

\* C21: an object of kind TypedData and one of kind ExternalTypedData with
\* the same element tag, pointer and length are read as the same view; the
\* flag external_typed is true exactly for ExternalTypedData; an unknown
\* element tag gives Some((Err(tag), flag)).
C21_TypedDataUniform ==
    (vout.op = "as_typed_data" /\ vout.arg.type_ \in TypedDataKinds) =>
      /\ ViewsOf(vout.enum, vout.arg) = ViewsOf(vout.enum, Twin(vout.arg))
      /\ ~vout.out.crash =>
           /\ vout.out.opt # {}
           /\ \A v \in vout.out.opt :
                /\ v.external_typed = (vout.arg.type_ = "kExternalTypedData")
                /\ v.data =
                     (IF vout.arg.value.type_ \in KnownTags("TypedDataType")
                        THEN Ok([data_type |->
                                    CHOOSE k \in Kinds("TypedDataType") :
                                       from("TypedDataType", k) = vout.arg.value.type_,
                                 len |-> vout.arg.value.length])
                        ELSE Err(vout.arg.value.type_))
      /\ vout.arg.value.type_ \notin KnownTags("TypedDataType") => ~vout.out.crash

\* A TypedData object (not external) with an unknown element tag was read.
C21_Witness ==
    /\ vout.op = "as_typed_data"
    /\ vout.arg.type_ = "kTypedData"
    /\ vout.arg.value.type_ = NativeValue("TypedDataType", "kInvalid")
    /\ \E v \in vout.out.opt : ~v.external_typed /\ v.data.ok = {}

ScalarConstructors == {"bool", "int32", "int64", "double", "capability"}

\* The discriminant each constructor gives its value.
KindOf(ctor) ==
    IF ctor = "bool" THEN "kBool"
    ELSE IF ctor = "int32" THEN "kInt32"
    ELSE IF ctor = "int64" THEN "kInt64"
    ELSE IF ctor = "double" THEN "kDouble"
    ELSE IF ctor = "capability" THEN "kCapability"
    ELSE IF ctor = "send_port" THEN "kSendPort"
    ELSE IF ctor = "array" THEN "kArray"
    ELSE "kString"

NulFree(str) == \A i \in DOMAIN str : str[i] # 0

\* The value_ref answer Ok(variant(v)).
ReadsAs(variant, v) ==
    vout.out.read = {[crash |-> FALSE, res |-> Ok([variant |-> variant, v |-> v])]}

\* C22: reading a constructed value back gives the input of the
\* constructor: the scalar, the string if it has no nul byte, Some(port) for
\* a send port, and the elements of an array of any length, without abort.
C22_ReadAfterConstruct ==
    /\ vout.op \in ScalarConstructors \cup {"array"} =>
          ReadsAs(KindOf(vout.op), vout.arg)
    /\ (vout.op = "string" /\ NulFree(vout.arg)) => ReadsAs("kString", vout.arg)
    /\ vout.op = "send_port" => ReadsAs("kSendPort", {vout.arg})

\* C23: typed_data(V(b)) is an ExternalTypedData object whose recorded
\* element type is that of V and whose recorded length is the length of b,
\* and it reads back as variant V with that length.
C23_TypedDataRecorded ==
    vout.op = "typed_data" =>
      \A o \in vout.out.res.ok :
         /\ o.type_ = "kExternalTypedData"
         /\ try_from("TypedDataType", o.value.type_) = Ok(data_type(vout.arg.variant))
         /\ o.value.length = vout.arg.len
         /\ ReadsAs("kTypedData",
                    [data |-> Ok([data_type |-> data_type(vout.arg.variant),
                                  len |-> vout.arg.len]),
                     external_typed |-> TRUE])

\* The bytes of a string before its first 0 byte.
BeforeNul(str) ==
    LET nuls == {i \in DOMAIN str : str[i] = 0}
    IN  IF nuls = {} THEN str
        ELSE SubSeq(str, 1, (CHOOSE i \in nuls : \A j \in nuls : i <= j) - 1)

\* C24: string(s) returns an error and no value if s holds a nul byte and a
\* value otherwise; string_lossy(s) always returns a value, which reads back
\* as s up to its first nul byte, and which is the value of string(s) if s
\* has no nul byte.
C24_StringConstructors ==
    /\ vout.op = "string" =>
          IF NulFree(vout.arg)
            THEN vout.out.res.ok # {} /\ ReadsAs("kString", vout.arg)
            ELSE vout.out.res = Err("NulError") /\ vout.out.read = {}
    /\ vout.op = "string_lossy" =>
          /\ vout.out.res.ok # {}
          /\ ReadsAs("kString", BeforeNul(vout.arg))
          /\ NulFree(vout.arg) => vout.out.res = OwnedCObject_string(vout.arg)

\* string_lossy was given a string with a byte before and a nul byte.
C24_Witness ==
    /\ vout.op = "string_lossy"
    /\ vout.arg = <<97, 0>>
    /\ ReadsAs("kString", <<97>>)

\* C28: the finalizer recorded for external typed data rebuilds the peer
\* pointer as the type of the container that was boxed into it, for every
\* variant of TypedData and every Vec<T>, and the length is the container's.
C28_FinalizerMatchesPeer ==
    vout.op \in {"typed_data", "external_typed_data"} =>
      \A o \in vout.out.res.ok :
         /\ o.value.callback = o.value.peer
         /\ o.value.length = vout.arg.len

(***************************************************************************)
(* A claim about the command handler of the integration test bindings,     *)
(* checked under SpecAdder.                                                *)
(***************************************************************************)

\* The add messages received for a reply port whose sum is `sum`, and the
\* integers `sum` posted to that port.
AddsOf(port, sum) ==
    {i \in DOMAIN inbox :
        /\ inbox[i].cmd = "add"
        /\ inbox[i].reply = port
        /\ inbox[i].a + inbox[i].b = sum}
SumsTo(port, sum) ==
    {i \in DOMAIN replies :
        /\ replies[i].kind = "integer"
        /\ replies[i].port = port
        /\ replies[i].v = sum}

\* C26: the sum of every add message is posted as an integer to its reply
\* port, once per message: never more integers than messages, and as many
\* once nothing is left to do for the adder thread.
C26_EverySumPosted ==
    \A port \in ReplyPorts : \A sum \in 0..2 :
       /\ Cardinality(SumsTo(port, sum)) <= Cardinality(AddsOf(port, sum))
       /\ (chan = <<>> /\ adder # "leaving") =>
             Cardinality(SumsTo(port, sum)) = Cardinality(AddsOf(port, sum))

====
